---- MODULE Spec2Model ----
(***************************************************************************)
(* Model of the study-planner backend: the Flask handler of POST /api/chat *)
(* (backend/app.py) and GeminiClient.generate_response with its web-search *)
(* trigger (backend/gemini_client.py).                                     *)
(*                                                                         *)
(* Text that the code inspects (request messages, search results) is a     *)
(* sequence of one-character strings, so that strip, lower, startswith and *)
(* split are computed as Python computes them.  Text that the code only    *)
(* passes on (the fixed messages, the model's replies) is a TLA+ string.   *)
(***************************************************************************)
EXTENDS Naturals, Sequences, FiniteSets, TLC

VARIABLES
    api_key_set,   \* GEMINI_API_KEY is set in the process environment
    configure_ok,  \* genai.configure / GenerativeModel / start_chat do not raise
    client,        \* app.client: "None" or "GeminiClient"
    chat,          \* client.chat: "None" or "ChatSession"
    history,       \* the turns held by the ChatSession, oldest first
    served,        \* number of operations handled so far
    op,            \* the last operation: "start", "chat", "generate", "monkeypatch"
    sid,           \* who issued the last operation (the code never reads it)
    request,       \* the last operation's input (a request body or a user_input)
    search_query,  \* generate_response's local search_query after trigger detection
    calls,         \* collaborator calls made by the last operation, in order
    ret,           \* what the last generate_response call did
    resp           \* the HTTP response of the last chat request

vars == <<api_key_set, configure_ok, client, chat, history, served, op, sid,
          request, search_query, calls, ret, resp>>

(***************************************************************************)
(* Bounds of the model.                                                    *)
(***************************************************************************)
MaxRequests == 2      \* operations handled in one behaviour
MaxRemLen == 3        \* length of the text after a trigger prefix (SpecQuery)

(***************************************************************************)
(* Program constants.                                                      *)
(***************************************************************************)
MAX_MESSAGE_LEN == 1000
MAX_RESULTS == 6
BODY_LIMIT == 300

NoMessageProvided == "No message provided"
MessageTooLong == "Message too long"
LLMClientNotAvailable == "LLM client not available"
ErrorGeneratingResponse == "Error generating response"
NotConfiguredMsg == "AI service is not configured correctly."
NoResultsMsg == "I could not retrieve web results right now. Please try again."
ErrorMsg == "I'm sorry, I encountered an error while processing your request."
SystemPrompt == "You are an AI research assistant. Use the provided web search results to answer the user query. Synthesize concisely, cite sources inline like [1], [2] where relevant, and include a brief summary."

(***************************************************************************)
(* Python string operations on sequences of characters.                    *)
(***************************************************************************)
Whitespace == {" ", "\t", "\n"}

UpperChars == <<"A","B","C","D","E","F","G","H","I","J","K","L","M",
                "N","O","P","Q","R","S","T","U","V","W","X","Y","Z">>
LowerChars == <<"a","b","c","d","e","f","g","h","i","j","k","l","m",
                "n","o","p","q","r","s","t","u","v","w","x","y","z">>

\* str.lower() on one character
LowerOf ==
    [c \in {UpperChars[i] : i \in 1..Len(UpperChars)} |->
        LowerChars[CHOOSE i \in 1..Len(UpperChars) : UpperChars[i] = c]]

LowerChar(c) == IF c \in DOMAIN LowerOf THEN LowerOf[c] ELSE c

\* str.lower()
Lower(s) == [i \in 1..Len(s) |-> LowerChar(s[i])]

\* str.strip(): drops leading and trailing whitespace
Strip(s) ==
    IF \A i \in 1..Len(s) : s[i] \in Whitespace
    THEN <<>>
    ELSE LET lead  == CHOOSE k \in 0..(Len(s) - 1) :
                         /\ s[k + 1] \notin Whitespace
                         /\ \A j \in 1..k : s[j] \in Whitespace
             trail == CHOOSE k \in 0..(Len(s) - 1) :
                         /\ s[Len(s) - k] \notin Whitespace
                         /\ \A j \in (Len(s) - k + 1)..Len(s) : s[j] \in Whitespace
         IN  SubSeq(s, lead + 1, Len(s) - trail)

\* str.startswith(p)
StartsWith(s, p) == Len(s) >= Len(p) /\ SubSeq(s, 1, Len(p)) = p

\* s.split(sep, 1)[1]: the text after the first sep; IndexError without one
SplitTail(s, sep) ==
    IF \E i \in 1..Len(s) : s[i] = sep
    THEN LET k == CHOOSE i \in 1..Len(s) :
                      s[i] = sep /\ \A j \in 1..(i-1) : s[j] # sep
         IN  [raised |-> FALSE, tail |-> SubSeq(s, k+1, Len(s))]
    ELSE [raised |-> TRUE, tail |-> <<>>]

\* s.replace('[', '\\[').replace(']', '\\]'), computed by halves
RECURSIVE Escape(_)
Escape(s) ==
    IF s = <<>> THEN <<>>
    ELSE IF Len(s) = 1
    THEN (IF s[1] \in {"[", "]"} THEN <<"\\", s[1]>> ELSE s)
    ELSE LET half == Len(s) \div 2
         IN  Escape(SubSeq(s, 1, half)) \o Escape(SubSeq(s, half + 1, Len(s)))

\* body[:300] + ('...' if len(body) > 300 else '')
Truncate(body) ==
    IF Len(body) > BODY_LIMIT
    THEN SubSeq(body, 1, BODY_LIMIT) \o <<".", ".", ".">>
    ELSE body

SearchColon == <<"s","e","a","r","c","h",":">>
SlashSearch == <<"/","s","e","a","r","c","h"," ">>

(***************************************************************************)
(* Python values that reach the code: a request body as get_json returns   *)
(* it, a message field, a user_input.                                      *)
(***************************************************************************)
PyNone == [t |-> "none"]
PyStr(s) == [t |-> "str", s |-> s]
PyInt(n) == [t |-> "int", n |-> n]
PyList(n) == [t |-> "list", n |-> n]                 \* a list of n elements
PyDict(has, m) == [t |-> "dict", has_message |-> has, message |-> m]
EmptyDict == PyDict(FALSE, PyNone)

\* Python truthiness, as `x or y` and `if x:` / `if not x:` use it.  A dict is
\* modelled by its 'message' key alone, so a dict without one stands for {}.
Truthy(v) ==
    CASE v.t = "none" -> FALSE
      [] v.t = "str"  -> v.s # <<>>
      [] v.t = "int"  -> v.n # 0
      [] v.t = "list" -> v.n # 0
      [] v.t = "dict" -> v.has_message

(***************************************************************************)
(* perform_web_search.  The provider either raises or yields raw results.  *)
(***************************************************************************)
RECURSIVE KeepResults(_)
KeepResults(raw) ==
    IF raw = <<>> THEN <<>>
    ELSE LET r == Head(raw)
         IN  (IF r.is_dict /\ r.title # <<>> /\ r.href # <<>>
              THEN <<[title |-> r.title, href |-> r.href, body |-> Truncate(r.body)]>>
              ELSE <<>>)
             \o KeepResults(Tail(raw))

PerformWebSearch(query, max_results, provider) ==
    IF provider.raises
    THEN [raised |-> FALSE, results |-> <<>>]
    ELSE [raised |-> FALSE, results |-> KeepResults(provider.results)]

(***************************************************************************)
(* GeminiClient                                                            *)
(***************************************************************************)
\* __init__: self.chat after construction
GeminiClientInit(key_set, conf_ok) ==
    IF ~key_set THEN "None"
    ELSE IF conf_ok THEN "ChatSession" ELSE "None"

\* app.py: client = GeminiClient(), or None when the constructor raises.
\* The constructor catches what it does, so it returns in every case.
AppClient(key_set, conf_ok) == "GeminiClient"

\* mutant of SendMessage: every send starts from an empty history
SendMessageFresh(hist, who, msg, model) ==
    IF model.raises
    THEN [raised |-> TRUE, text |-> "", history |-> hist,
          calls |-> <<[ev |-> "send", msg |-> msg, prior |-> hist, raised |-> TRUE]>>]
    ELSE [raised |-> FALSE, text |-> model.text,
          history |-> <<[sid |-> who, msg |-> msg, reply |-> model.text]>>,
          calls |-> <<[ev |-> "send", msg |-> msg, prior |-> hist, raised |-> FALSE]>>]

\* self.chat.send_message(msg): the session keeps the turn when the model answers
SendMessage(hist, who, msg, model) ==
    IF model.raises
    THEN [raised |-> TRUE, text |-> "", history |-> hist,
          calls |-> <<[ev |-> "send", msg |-> msg, prior |-> hist, raised |-> TRUE]>>]
    ELSE [raised |-> FALSE, text |-> model.text,
          history |-> Append(hist, [sid |-> who, msg |-> msg, reply |-> model.text]),
          calls |-> <<[ev |-> "send", msg |-> msg, prior |-> hist, raised |-> FALSE]>>]

\* lines 107-114: trigger detection on a str
ExtractSearchQuery(text) ==
    LET lower == Lower(Strip(text))
    IN  IF StartsWith(lower, SearchColon)
        THEN LET sp == SplitTail(text, ":")
             IN  [raised |-> sp.raised, value |-> PyStr(Strip(sp.tail))]
        ELSE IF StartsWith(lower, SlashSearch)
        THEN LET sp == SplitTail(text, " ")
             IN  [raised |-> sp.raised, value |-> PyStr(Strip(sp.tail))]
        ELSE [raised |-> FALSE, value |-> PyNone]

\* lines 122-127: the numbered references
FormatRefs(web_results) ==
    [i \in 1..Len(web_results) |->
        [idx |-> i, title |-> Escape(web_results[i].title),
         href |-> web_results[i].href, body |-> Escape(web_results[i].body)]]

\* lines 129-137: the composed block
Compose(query, web_results) ==
    [kind |-> "composed", system |-> SystemPrompt, user_query |-> query,
     web_results |-> FormatRefs(web_results)]

\* mutant of SearchBranch: the empty-result check is missing
SearchBranchNoEmptyCheck(hist, who, query, provider, model) ==
    LET found == PerformWebSearch(query, MAX_RESULTS, provider)
        call  == [ev |-> "search", query |-> query, max_results |-> MAX_RESULTS,
                  provider_raised |-> provider.raises, raised |-> found.raised,
                  results |-> found.results]
    IN  IF found.raised
        THEN [raised |-> TRUE, text |-> "", history |-> hist, calls |-> <<call>>]
        ELSE LET sent == SendMessage(hist, who, Compose(query, found.results), model)
             IN  [sent EXCEPT !.calls = <<call>> \o sent.calls]

\* lines 117-139: the search branch
SearchBranch(hist, who, query, provider, model) ==
    LET found == PerformWebSearch(query, MAX_RESULTS, provider)
        call  == [ev |-> "search", query |-> query, max_results |-> MAX_RESULTS,
                  provider_raised |-> provider.raises, raised |-> found.raised,
                  results |-> found.results]
    IN  IF found.raised
        THEN [raised |-> TRUE, text |-> "", history |-> hist, calls |-> <<call>>]
        ELSE IF found.results = <<>>
        THEN [raised |-> FALSE, text |-> NoResultsMsg, history |-> hist,
              calls |-> <<call>>]
        ELSE LET sent == SendMessage(hist, who, Compose(query, found.results), model)
             IN  [sent EXCEPT !.calls = <<call>> \o sent.calls]

\* mutant of NormalChat: sends the lower-cased, stripped text
NormalChatLower(hist, who, text, model) ==
    SendMessage(hist, who, [kind |-> "text", text |-> Lower(Strip(text))], model)

\* lines 141-143: normal chat
NormalChat(hist, who, text, model) ==
    SendMessage(hist, who, [kind |-> "text", text |-> text], model)

\* lines 106-143: the body of the try block
TryBody(hist, who, user_input, provider, model) ==
    LET text == IF Truthy(user_input) THEN user_input ELSE PyStr(<<>>)
    IN  IF text.t # "str"
        THEN \* text.strip() raises AttributeError
             [raised |-> TRUE, text |-> "", history |-> hist, calls |-> <<>>,
              search_query |-> PyNone]
        ELSE LET q == ExtractSearchQuery(text.s)
             IN  IF q.raised
                 THEN [raised |-> TRUE, text |-> "", history |-> hist,
                       calls |-> <<>>, search_query |-> PyNone]
                 ELSE IF Truthy(q.value)
                 THEN [search_query |-> q.value] @@
                      SearchBranch(hist, who, q.value.s, provider, model)
                 ELSE [search_query |-> q.value] @@
                      NormalChat(hist, who, text.s, model)

\* mutant of GenerateResponse: the except clause is missing
GenerateResponseNoCatch(ch, hist, who, user_input, provider, model) ==
    IF ch = "None"
    THEN [raised |-> FALSE, text |-> NotConfiguredMsg, history |-> hist,
          calls |-> <<>>, search_query |-> PyNone]
    ELSE TryBody(hist, who, user_input, provider, model)

\* lines 100-146: generate_response
GenerateResponse(ch, hist, who, user_input, provider, model) ==
    IF ch = "None"
    THEN [raised |-> FALSE, text |-> NotConfiguredMsg, history |-> hist,
          calls |-> <<>>, search_query |-> PyNone]
    ELSE LET r == TryBody(hist, who, user_input, provider, model)
         IN  IF r.raised
             THEN [r EXCEPT !.raised = FALSE, !.text = ErrorMsg]
             ELSE r

(***************************************************************************)
(* app.py: the handler of POST /api/chat                                   *)
(***************************************************************************)
NoCall == [called |-> FALSE, raised |-> FALSE, text |-> ""]

ErrorResponse(code, error) ==
    [code |-> code, envelope |-> TRUE, status |-> "error",
     has_response |-> FALSE, response |-> "", has_error |-> TRUE, error |-> error]

SuccessResponse(text) ==
    [code |-> 200, envelope |-> TRUE, status |-> "success",
     has_response |-> TRUE, response |-> text, has_error |-> FALSE, error |-> ""]

\* no request has been answered yet
NoResponse ==
    [code |-> 0, envelope |-> FALSE, status |-> "",
     has_response |-> FALSE, response |-> "", has_error |-> FALSE, error |-> ""]

\* An exception that leaves chat(): the framework answers, not the handler
UnhandledResponse ==
    [code |-> 500, envelope |-> FALSE, status |-> "",
     has_response |-> FALSE, response |-> "", has_error |-> FALSE, error |-> ""]

\* a return before the client is called
Rejected(hist, response) ==
    [resp |-> response, history |-> hist, calls |-> <<>>, ret |-> NoCall,
     search_query |-> PyNone]

\* lines 62-67: the call of the client and what becomes of its result
Delegate(ch, hist, who, user_message, provider, model) ==
    LET r == GenerateResponse(ch, hist, who, PyStr(user_message), provider, model)
    IN  [resp |-> IF r.raised THEN ErrorResponse(500, ErrorGeneratingResponse)
                  ELSE SuccessResponse(r.text),
         history |-> r.history, calls |-> r.calls,
         ret |-> [called |-> TRUE, raised |-> r.raised, text |-> r.text],
         search_query |-> r.search_query]

\* mutant of Validate: the availability of the client is checked first
ValidateClientFirst(cl, ch, hist, who, user_message, provider, model) ==
    IF cl = "None"
    THEN Rejected(hist, ErrorResponse(500, LLMClientNotAvailable))
    ELSE IF user_message = <<>>
    THEN Rejected(hist, ErrorResponse(400, NoMessageProvided))
    ELSE IF Len(user_message) > MAX_MESSAGE_LEN
    THEN Rejected(hist, ErrorResponse(400, MessageTooLong))
    ELSE Delegate(ch, hist, who, user_message, provider, model)

\* lines 55-60: the three checks, in the order of the code
Validate(cl, ch, hist, who, user_message, provider, model) ==
    IF user_message = <<>>
    THEN Rejected(hist, ErrorResponse(400, NoMessageProvided))
    ELSE IF Len(user_message) > MAX_MESSAGE_LEN
    THEN Rejected(hist, ErrorResponse(400, MessageTooLong))
    ELSE IF cl = "None"
    THEN Rejected(hist, ErrorResponse(500, LLMClientNotAvailable))
    ELSE Delegate(ch, hist, who, user_message, provider, model)

\* lines 52-67: chat().  body is what request.get_json(silent=True) returns:
\* None for no body, invalid JSON or JSON null, the parsed value otherwise.
ChatHandler(cl, ch, hist, who, body, provider, model) ==
    LET payload == IF Truthy(body) THEN body ELSE EmptyDict
    IN  IF payload.t # "dict"
        THEN \* payload.get raises AttributeError
             Rejected(hist, UnhandledResponse)
        ELSE LET message == IF payload.has_message THEN payload.message
                            ELSE PyStr(<<>>)
             IN  IF message.t # "str"
                 THEN \* .strip() raises AttributeError
                      Rejected(hist, UnhandledResponse)
                 ELSE Validate(cl, ch, hist, who, Strip(message.s), provider, model)

(***************************************************************************)
(* Inputs and the collaborators' outcomes.                                 *)
(***************************************************************************)
Sessions == {"A", "B"}

Replies == {"T1", "T2"}
ModelAnswers == [raises |-> FALSE, text |-> "T1"]
ModelOutcomes ==
    {[raises |-> TRUE, text |-> ""]} \cup {[raises |-> FALSE, text |-> t] : t \in Replies}

Repeat(c, n) == [i \in 1..n |-> c]

RawNotDict == [is_dict |-> FALSE, title |-> <<>>, href |-> <<>>, body |-> <<>>]
RawNoTitle == [is_dict |-> TRUE, title |-> <<>>, href |-> <<"h">>, body |-> <<"b">>]
RawPlain == [is_dict |-> TRUE, title |-> <<"t">>, href |-> <<"h">>, body |-> <<"b">>]
RawShort == [is_dict |-> TRUE, title |-> <<"[","x","]">>, href |-> <<"u">>, body |-> <<"]">>]
RawBracket ==
    [is_dict |-> TRUE, title |-> <<"[","x","]">>, href |-> <<"u">>,
     body |-> Repeat("b", BODY_LIMIT + 1)]

ProviderFinds == [raises |-> FALSE, results |-> <<RawPlain>>]
ProviderOutcomes ==
    { [raises |-> TRUE, results |-> <<>>],
      [raises |-> FALSE, results |-> <<>>],
      [raises |-> FALSE, results |-> <<RawNotDict, RawNoTitle>>],
      ProviderFinds,
      [raises |-> FALSE, results |-> <<RawNotDict, RawShort, RawPlain>>] }

\* with a body longer than BODY_LIMIT
ProviderOutcomesLong ==
    ProviderOutcomes \cup {[raises |-> FALSE, results |-> <<RawBracket, RawPlain>>]}

HasEvent(log, e) == \E i \in 1..Len(log) : log[i].ev = e

\* The outcome of a collaborator is drawn only when the operation consults it;
\* whether it does is read off the run in which both collaborators answer.
ProvidersFor(probe, providers) ==
    IF HasEvent(probe, "search") THEN providers ELSE {ProviderFinds}
ModelsFor(probe) ==
    IF HasEvent(probe, "send") THEN ModelOutcomes ELSE {ModelAnswers}

Hello == <<"H","i">>
SearchCats == SearchColon \o <<" ","c">>
SlashCats == SlashSearch \o <<"c">>

\* what get_json gives for the bodies a caller can post
Bodies ==
    { PyNone,                                     \* no body, invalid JSON, null
      PyList(0),                                  \* []
      PyList(1),                                  \* [1]
      PyStr(Hello),                               \* "Hi"
      EmptyDict,                                  \* {}
      PyDict(TRUE, PyNone),                       \* {"message": null}
      PyDict(TRUE, PyInt(5)),                     \* {"message": 5}
      PyDict(TRUE, PyStr(<<>>)),
      PyDict(TRUE, PyStr(<<" ", "\t">>)),
      PyDict(TRUE, PyStr(Hello)),
      PyDict(TRUE, PyStr(<<" ">> \o Hello \o <<"\n">>)),
      PyDict(TRUE, PyStr(Repeat("a", MAX_MESSAGE_LEN + 1))),
      PyDict(TRUE, PyStr(<<" ">> \o Repeat("a", MAX_MESSAGE_LEN) \o <<" ">>)),
      PyDict(TRUE, PyStr(SearchCats)),
      PyDict(TRUE, PyStr(<<" ">> \o SlashCats)),
      PyDict(TRUE, PyStr(SearchColon)) }

\* texts for one call of generate_response: optional leading whitespace, a
\* trigger prefix in either case or none, and every remainder up to MaxRemLen
LeadingTexts == {<<>>, <<" ">>, <<"\t">>}
PrefixTexts ==
    { <<>>, SearchColon, <<"S","E","A","R","C","H",":">>,
      SlashSearch, <<"/","S","e","a","r","c","h"," ">>,
      <<"/","s","e","a","r","c","h">> }
RemainderChars == {" ", "c", ":"}
Remainders == UNION {[1..k -> RemainderChars] : k \in 0..MaxRemLen}
QueryInputs ==
    {PyStr(l \o p \o r) : l \in LeadingTexts, p \in PrefixTexts, r \in Remainders}

\* user_input values for direct calls of generate_response
UserInputs ==
    { PyNone, PyInt(5), PyStr(<<>>), PyStr(Hello),
      PyStr(<<" ">> \o Hello),
      PyStr(SearchCats), PyStr(SlashCats),
      PyStr(<<"S","e","a","r","c","h",":","c">>),
      PyStr(SearchColon), PyStr(SearchColon \o <<" ">>) }

(***************************************************************************)
(* The state machine.                                                      *)
(***************************************************************************)
Init ==
    /\ api_key_set \in BOOLEAN
    /\ configure_ok \in BOOLEAN
    /\ client = AppClient(api_key_set, configure_ok)
    /\ chat = GeminiClientInit(api_key_set, configure_ok)
    /\ history = <<>>
    /\ served = 0
    /\ op = "start"
    /\ sid = "A"
    /\ request = PyNone
    /\ search_query = PyNone
    /\ calls = <<>>
    /\ ret = NoCall
    /\ resp = NoResponse

\* POST /api/chat
Chat(who, body) ==
    LET probe == ChatHandler(client, chat, history, who, body,
                             ProviderFinds, ModelAnswers).calls
    IN  /\ served < MaxRequests
        /\ \E provider \in ProvidersFor(probe, ProviderOutcomes),
              model \in ModelsFor(probe) :
             LET r == ChatHandler(client, chat, history, who, body, provider, model)
             IN  /\ resp' = r.resp
                 /\ history' = r.history
                 /\ calls' = r.calls
                 /\ ret' = r.ret
                 /\ search_query' = r.search_query
        /\ op' = "chat"
        /\ sid' = who
        /\ request' = body
        /\ served' = served + 1
        /\ UNCHANGED <<api_key_set, configure_ok, client, chat>>

\* client.generate_response(user_input), called on the GeminiClient itself
Generate(who, user_input, providers) ==
    LET probe == GenerateResponse(chat, history, who, user_input,
                                  ProviderFinds, ModelAnswers).calls
    IN  /\ served < MaxRequests
        /\ client = "GeminiClient"
        /\ \E provider \in ProvidersFor(probe, providers), model \in ModelsFor(probe) :
             LET r == GenerateResponse(chat, history, who, user_input, provider, model)
             IN  /\ history' = r.history
                 /\ calls' = r.calls
                 /\ ret' = [called |-> TRUE, raised |-> r.raised, text |-> r.text]
                 /\ search_query' = r.search_query
        /\ op' = "generate"
        /\ sid' = who
        /\ request' = user_input
        /\ served' = served + 1
        /\ UNCHANGED <<api_key_set, configure_ok, client, chat, resp>>

\* tests/test_app.py: monkeypatch.setattr('app.client', None)
MonkeypatchClientNone ==
    /\ client # "None"
    /\ client' = "None"
    /\ op' = "monkeypatch"
    /\ UNCHANGED <<api_key_set, configure_ok, chat, history, served, sid, request,
                   search_query, calls, ret, resp>>

Next ==
    \/ \E who \in Sessions, body \in Bodies : Chat(who, body)
    \/ MonkeypatchClientNone

Spec == Init /\ [][Next]_vars

\* the GeminiClient driven directly
NextGen ==
    \E who \in Sessions, user_input \in UserInputs :
        Generate(who, user_input, ProviderOutcomes)

SpecGen == Init /\ [][NextGen]_vars

\* one call of generate_response on each text of QueryInputs
NextQuery ==
    /\ served = 0
    /\ \E user_input \in QueryInputs : Generate("A", user_input, ProviderOutcomesLong)

SpecQuery == Init /\ [][NextQuery]_vars

(***************************************************************************)
(* Helpers of the properties.                                              *)
(***************************************************************************)
Events(e) == {i \in 1..Len(calls) : calls[i].ev = e}

\* the body carries no message or a str message in a JSON object (or is falsy)
HasTextMessage(body) ==
    LET payload == IF Truthy(body) THEN body ELSE EmptyDict
    IN  /\ payload.t = "dict"
        /\ payload.has_message => payload.message.t = "str"

MessageOf(body) ==
    IF body.t = "dict" /\ body.has_message THEN body.message.s ELSE <<>>

Trimmed == Strip(MessageOf(request))

ValidLength == Trimmed # <<>> /\ Len(Trimmed) <= MAX_MESSAGE_LEN

ColonTrigger(text) == StartsWith(Lower(Strip(text)), SearchColon)
SlashTrigger(text) == StartsWith(Lower(Strip(text)), SlashSearch)

\* the text that follows a prefix of n characters in the trimmed input
Remainder(text, n) == SubSeq(Strip(text), n + 1, Len(Strip(text)))

IsPrefix(a, b) == Len(a) <= Len(b) /\ SubSeq(b, 1, Len(a)) = a

(***************************************************************************)
(* C1: the checks of POST /api/chat are applied in the order empty         *)
(* message (400), over-long message (400), missing client (500); the first *)
(* failing check decides the response, a trimmed length of exactly 1000 is *)
(* not over-long, and the client is not called on any of the three.  "No   *)
(* client" is app.client being None, the test of app.py:59; a GeminiClient *)
(* whose construction failed is the subject of C3.                         *)
(***************************************************************************)
C1_FailFastOrder ==
    (op = "chat" /\ HasTextMessage(request)) =>
        /\ Trimmed = <<>> =>
               /\ resp = ErrorResponse(400, NoMessageProvided)
               /\ calls = <<>> /\ ~ret.called
        /\ (Trimmed # <<>> /\ Len(Trimmed) > MAX_MESSAGE_LEN) =>
               /\ resp = ErrorResponse(400, MessageTooLong)
               /\ calls = <<>> /\ ~ret.called
        /\ (ValidLength /\ client = "None") =>
               /\ resp = ErrorResponse(500, LLMClientNotAvailable)
               /\ calls = <<>> /\ ~ret.called
        /\ (ValidLength /\ client # "None") => (resp.code = 200 /\ ret.called)

\* an over-long message is answered 400 while no client is available
C1_Witness ==
    /\ op = "chat" /\ HasTextMessage(request) /\ client = "None"
    /\ Len(Trimmed) = MAX_MESSAGE_LEN + 1
    /\ resp = ErrorResponse(400, MessageTooLong)

(***************************************************************************)
(* C2 as stated: when the client returns T for a message M that passes     *)
(* validation the response is 200 {success, T}, and when no trigger        *)
(* matched the text sent to the model is M itself.                         *)
(***************************************************************************)
C2_Original ==
    (op = "chat" /\ ret.called) =>
        /\ resp = SuccessResponse(ret.text)
        /\ search_query = PyNone =>
               \A i \in Events("send") :
                   calls[i].msg = [kind |-> "text", text |-> MessageOf(request)]

(***************************************************************************)
(* C2 amended: when the client returns T for a message M that passes       *)
(* validation the response is 200 {success, T}, and when no trigger        *)
(* matched the text sent to the model is M with its leading and trailing   *)
(* whitespace trimmed.                                                     *)
(***************************************************************************)
C2_TrimmedPassThrough ==
    (op = "chat" /\ ret.called) =>
        /\ resp = SuccessResponse(ret.text)
        /\ search_query = PyNone =>
               \A i \in Events("send") :
                   calls[i].msg = [kind |-> "text", text |-> Trimmed]

\* a message with surrounding whitespace reached the model and was answered
C2_Witness ==
    /\ op = "chat" /\ ret.called /\ search_query = PyNone
    /\ Events("send") # {} /\ \A i \in Events("send") : ~calls[i].raised
    /\ MessageOf(request) # Trimmed
    /\ resp = SuccessResponse("T1")

(***************************************************************************)
(* C3: when the client was not initialized at process start (no API key,   *)
(* or configuring the provider failed), every otherwise-valid chat request *)
(* is answered 500 with error "LLM client not available".                  *)
(***************************************************************************)
C3_Original ==
    (/\ op = "chat"
     /\ ~(api_key_set /\ configure_ok)
     /\ HasTextMessage(request)
     /\ ValidLength)
        => resp = ErrorResponse(500, LLMClientNotAvailable)

(***************************************************************************)
(* C4: every POST /api/chat request, whatever its body, ends in a          *)
(* well-formed JSON envelope with exactly one of response and error.       *)
(***************************************************************************)
C4_Original ==
    op = "chat" =>
        /\ resp.envelope
        /\ resp.status \in {"success", "error"}
        /\ resp.has_response # resp.has_error

C6_Original ==
    (op = "generate" /\ chat # "None" /\ request.t = "str") =>
        /\ ColonTrigger(request.s) =>
               search_query = PyStr(Strip(Remainder(request.s, Len(SearchColon))))
        /\ SlashTrigger(request.s) =>
               search_query = PyStr(Strip(Remainder(request.s, Len(SlashSearch))))

(***************************************************************************)
(* C7: whenever a trigger prefix matches on an initialized client, the     *)
(* search is invoked exactly once, first, with the extracted query and     *)
(* max_results = 6, and the raw text is never sent as a plain chat turn,   *)
(* also for an empty remainder.                                            *)
(***************************************************************************)
C7_Original ==
    (/\ op = "generate" /\ chat # "None" /\ request.t = "str"
     /\ (ColonTrigger(request.s) \/ SlashTrigger(request.s)))
        => /\ Cardinality(Events("search")) = 1
           /\ calls[1].ev = "search"
           /\ calls[1].query = search_query.s
           /\ calls[1].max_results = MAX_RESULTS
           /\ \A i \in Events("send") : calls[i].msg.kind # "text"

(***************************************************************************)
(* C8: when the search returns an empty list for a triggered query (also   *)
(* when the provider raised inside perform_web_search), the reply is the   *)
(* could-not-retrieve string, the model is not contacted, and the HTTP     *)
(* response is 200 success with that text.                                 *)
(***************************************************************************)
C8_EmptyResults ==
    (op = "chat" /\ \E i \in Events("search") :
                        calls[i].provider_raised \/ calls[i].results = <<>>)
        => /\ ret = [called |-> TRUE, raised |-> FALSE, text |-> NoResultsMsg]
           /\ resp = SuccessResponse(NoResultsMsg)
           /\ Events("send") = {}

\* the provider raised during a triggered chat request
C8_Witness ==
    /\ op = "chat"
    /\ \E i \in Events("search") : calls[i].provider_raised
    /\ resp.code = 200

(***************************************************************************)
(* C9: a turn submitted by one session never appears in the history the    *)
(* model sees when it answers a request of another session.                *)
(***************************************************************************)
C9_Original ==
    \A i \in Events("send") :
        \A k \in 1..Len(calls[i].prior) : calls[i].prior[k].sid = sid

====
